---- MODULE Spec2Model ----
(***************************************************************************)
(* Model of the Polly-API client helpers (src/api_client):                 *)
(*   fetch_polls, get_poll_results, get_poll_results_with_error_handling,  *)
(*   format_poll_results, get_poll_results_summary, register_user,         *)
(*   login_and_get_token, vote_on_poll.                                    *)
(* One invocation runs at a time (the code is synchronous): it validates   *)
(* its arguments, issues its HTTP request, receives a response or a        *)
(* transport exception from the requests library, and maps it to a return  *)
(* value or a raised exception.                                            *)
(*                                                                         *)
(* Python values: an optional value (a dict key that may be absent, or a   *)
(* value that may be None) is the empty tuple when absent and <<v>> when   *)
(* present.  A message is a record of its text and of the HTTP status code *)
(* that can be read from it (or from the exception that carries it).       *)
(***************************************************************************)
EXTENDS Integers, Sequences, FiniteSets, TLC

\* ---------------------------------------------------------------- bounds
\* Longest results list of a poll-results payload.
MaxLen == 3
\* Largest vote_count of a tally.
MaxVotes == 3
\* Largest integer argument tried (skip, limit, poll_id, option_id range
\* over -1..MaxArg).
MaxArg == 1

\* ------------------------------------------------------- optional values
Missing == <<>>
Some(v) == <<v>>
None == <<>>

\* dict.get(key, default)
Get(d, key, default) == IF d[key] = Missing THEN default ELSE d[key][1]

Msg(text, status) == [text |-> text, status |-> status]

\* ------------------------------------------------ format_poll_results
\* The per-option tallies a server can send: option_id is the position in
\* the list as received (so that input order can be read back from the
\* output), text and vote_count may be absent.
TallyBody ==
    [text : {Some("A")},
     vote_count : {Missing} \cup {Some(n) : n \in 0..MaxVotes}]
      \cup {[text |-> Missing, vote_count |-> Missing]}

ResultsOfLen(n) ==
    { [i \in 1..n |-> [option_id |-> Some(i), text |-> f[i].text,
                       vote_count |-> f[i].vote_count]] :
        f \in [1..n -> TallyBody] }

ResultsLists == UNION { ResultsOfLen(n) : n \in 0..MaxLen }

\* The decoded JSON bodies of a 200 answer of /polls/{id}/results: a dict in
\* which every key may be absent (all absent is the empty dict).
ReportDicts ==
    [poll_id : {Missing, Some(1)},
     question : {Missing, Some("Q?")},
     results : {Missing} \cup {Some(r) : r \in ResultsLists}]

\* Python truthiness of results_data: None and the empty dict are falsy.
Falsy(results_data) ==
    \/ results_data = None
    \/ /\ results_data[1].poll_id = Missing
       /\ results_data[1].question = Missing
       /\ results_data[1].results = Missing

\* key=lambda x: x.get("vote_count", 0)
SortKey(x) == Get(x, "vote_count", 0)

\* One step of the stable descending sort, as a plausible bug would have it:
\* the new element goes before the elements of equal key.
InsertUnstable(x, s) ==
    LET p == Cardinality({i \in 1..Len(s) : SortKey(s[i]) > SortKey(x)})
    IN  SubSeq(s, 1, p) \o <<x>> \o SubSeq(s, p + 1, Len(s))

\* One step of sorted(..., reverse=True): x, which comes after every element
\* of s in the input, is placed after the elements whose key is >= its own
\* (s is in descending key order, so these are a prefix).
Insert(x, s) ==
    LET p == Cardinality({i \in 1..Len(s) : SortKey(s[i]) >= SortKey(x)})
    IN  SubSeq(s, 1, p) \o <<x>> \o SubSeq(s, p + 1, Len(s))

\* sorted(results, key=..., reverse=True): Python's sort is stable, also
\* with reverse=True.
RECURSIVE sorted(_)
sorted(results) ==
    IF results = <<>> THEN <<>>
    ELSE Insert(results[Len(results)],
                sorted(SubSeq(results, 1, Len(results) - 1)))

RECURSIVE SumFrom(_, _)
SumFrom(s, i) ==
    IF i > Len(s) THEN 0 ELSE Get(s[i], "vote_count", 0) + SumFrom(s, i + 1)

\* The sum as a plausible bug would have it: a tally without vote_count
\* counts as one vote.
RECURSIVE SumFromMissingAsOne(_, _)
SumFromMissingAsOne(s, i) ==
    IF i > Len(s) THEN 0
    ELSE Get(s[i], "vote_count", 1) + SumFromMissingAsOne(s, i + 1)

total_votes_missing_as_one(sorted_results) ==
    SumFromMissingAsOne(sorted_results, 1)

\* sum(result.get("vote_count", 0) for result in sorted_results)
total_votes(sorted_results) == SumFrom(sorted_results, 1)

\* The value a division by zero yields in place of a percentage: Python
\* raises ZeroDivisionError there.
ZeroDivision == 0 - 1

\* f"{a / b * 100:.1f}" in tenths of a percent, rounded to nearest (ties to
\* even, as the exact binary value decides them).
Tenths(a, b) ==
    IF b = 0 THEN ZeroDivision
    ELSE LET q == (1000 * a) \div b
             r == (1000 * a) % b
         IN  IF 2 * r > b \/ (2 * r = b /\ q % 2 = 1) THEN q + 1 ELSE q

\* The percentage without the guard on total_votes.
percentage_unguarded(vote_count, total) == Tenths(vote_count, total)

\* (vote_count / total_votes * 100) if total_votes > 0 else 0
percentage(vote_count, total) ==
    IF total > 0 THEN Tenths(vote_count, total) ELSE 0

\* The first two lines and the blank line: "Poll #<id>: <question>" (the id
\* and the question default to "Unknown" and "Unknown question"), the
\* underline of len(header) '=' characters.
HeaderLines(d) ==
    << [kind |-> "header", poll_id |-> Get(d, "poll_id", "Unknown"),
        question |-> Get(d, "question", "Unknown question")],
       [kind |-> "underline",
        len |-> Len("Poll #")
                  + (IF d.poll_id = Missing THEN Len("Unknown") ELSE 1)
                  + Len(": ") + Len(Get(d, "question", "Unknown question"))],
       [kind |-> "blank"] >>

\* The four lines of one option, i its 1-based rank.
OptionBlock(i, result, total) ==
    << [kind |-> "rank", rank |-> i, text |-> Get(result, "text", "Unknown option")],
       [kind |-> "votes", vote_count |-> Get(result, "vote_count", 0),
        pct |-> percentage(Get(result, "vote_count", 0), total)],
       [kind |-> "option", option_id |-> Get(result, "option_id", "Unknown")],
       [kind |-> "blank"] >>

RECURSIVE OptionBlocks(_, _, _)
OptionBlocks(sorted_results, i, total) ==
    IF i > Len(sorted_results) THEN <<>>
    ELSE OptionBlock(i, sorted_results[i], total)
           \o OptionBlocks(sorted_results, i + 1, total)

\* The formatter as a plausible bug would have it: an empty results list is
\* not special-cased, so the report always has a total line.
format_lines_no_empty_case(results_data) ==
    IF Falsy(results_data) THEN << [kind |-> "nodata"] >>
    ELSE LET d == results_data[1]
             sorted_results == sorted(Get(d, "results", <<>>))
             total == total_votes(sorted_results)
         IN  HeaderLines(d)
               \o << [kind |-> "total", total |-> total], [kind |-> "blank"] >>
               \o OptionBlocks(sorted_results, 1, total)

\* format_poll_results: the output text as its sequence of lines.
format_lines(results_data) ==
    IF Falsy(results_data) THEN << [kind |-> "nodata"] >>
    ELSE LET d == results_data[1]
             results == Get(d, "results", <<>>)
             header == HeaderLines(d)
         IN  IF results = <<>> THEN header \o << [kind |-> "novotes"] >>
             ELSE LET sorted_results == sorted(results)
                      total == total_votes(sorted_results)
                  IN  header
                        \o << [kind |-> "total", total |-> total],
                              [kind |-> "blank"] >>
                        \o OptionBlocks(sorted_results, 1, total)

\* What format_poll_results does with results_data: it returns the text, or
\* the division of line 128 raises.
format_poll_results(results_data) ==
    LET lines == format_lines(results_data)
    IN  IF \E i \in 1..Len(lines) :
              lines[i].kind = "votes" /\ lines[i].pct = ZeroDivision
        THEN [kind |-> "raise", exc |-> "ZeroDivisionError",
              msg |-> Msg("division by zero", Missing), value |-> None]
        ELSE [kind |-> "return", exc |-> "", msg |-> Msg("", Missing),
              value |-> Some(lines)]

\* ------------------------------------------------------------ outcomes
\* How an invocation ends: it returns a value (None when the function falls
\* off its end) or raises an exception of class exc with message msg.
Return(v) ==
    [kind |-> "return", exc |-> "", msg |-> Msg("", Missing), value |-> v]
Raise(exc, msg) ==
    [kind |-> "raise", exc |-> exc, msg |-> msg, value |-> None]
NoOutcome ==
    [kind |-> "none", exc |-> "", msg |-> Msg("", Missing), value |-> None]

\* The (success, results_data, error_message) triple of the non-raising form.
Triple(success, results_data, error_message) ==
    Return(Some([success |-> success, results_data |-> results_data,
                 error_message |-> error_message]))

\* ------------------------------------------------------------ requests
\* The exception classes of the requests library that requests.get/post
\* raise when no response arrives.
TransportExceptions == {"ConnectionError", "Timeout", "TooManyRedirects"}

RequestExceptions ==
    TransportExceptions \cup {"RequestException", "HTTPError", "JSONDecodeError"}

\* issubclass(exc, base) for the classes of the except clauses.
IsSubclass(exc, base) ==
    CASE base = "Exception" -> TRUE
      [] base = "RequestException" -> exc \in RequestExceptions
      [] OTHER -> exc = base

\* The status codes a server answers with.
Statuses == {200, 201, 204, 304, 400, 401, 404, 422, 500}

NotJson == [json |-> FALSE, isdict |-> FALSE, data |-> None]
JsonDict(d) == [json |-> TRUE, isdict |-> TRUE, data |-> d]
JsonList == [json |-> TRUE, isdict |-> FALSE, data |-> None]

\* The bodies of an error answer: not JSON, a JSON list, a JSON object
\* without "detail", or with "detail" null, empty or a text.
ErrorBodies ==
    {NotJson, JsonList}
      \cup {JsonDict([detail |-> x]) :
              x \in {Missing, Some(None), Some(Some("")),
                     Some(Some("Internal failure"))}}

\* The bodies of a 200 answer, by adapter.
OkBodies(f) ==
    CASE f \in {"get_poll_results", "get_poll_results_with_error_handling",
                "get_poll_results_summary"} ->
             {NotJson} \cup {JsonDict(d) : d \in ReportDicts}
      [] f = "login_and_get_token" ->
             {NotJson, JsonDict([access_token |-> Missing]),
              JsonDict([access_token |-> Some("tok")])}
      [] OTHER -> {NotJson, JsonDict([id |-> Some(1)])}

HttpResponse(status, body) ==
    [kind |-> "http", status |-> status, exc |-> "", body |-> body]
NoResponse(exc) ==
    [kind |-> "transport", status |-> 0, exc |-> exc, body |-> NotJson]

\* Everything requests.get/post can do for adapter f.
Responses(f) ==
    {NoResponse(e) : e \in TransportExceptions}
      \cup {HttpResponse(200, b) : b \in OkBodies(f)}
      \cup {HttpResponse(st, b) : st \in Statuses \ {200}, b \in ErrorBodies}

\* requests.get/post raising instead of returning a response.
TransportError(r) == Raise(r.exc, Msg("no response", Missing))

\* response.json(): the decoded body, or requests' JSONDecodeError, which is
\* a RequestException.
Json(r) ==
    IF r.body.json THEN Return(Some(r.body.data))
    ELSE Raise("JSONDecodeError", Msg("Expecting value", Missing))

\* response.raise_for_status(): HTTPError for 4xx and 5xx, whose text holds
\* the status code and the reason; nothing otherwise, and the adapter then
\* falls off its end.
raise_for_status(r) ==
    IF r.status >= 400 /\ r.status < 600
    THEN Raise("HTTPError",
               Msg(IF r.status < 500 THEN "Client Error" ELSE "Server Error",
                   Some(r.status)))
    ELSE Return(None)

\* An except clause that catches every exception, as a plausible bug would
\* have it.
CatchesAnything(handler, o) == o.kind = "raise"

\* except <handler>: does the clause catch what the try body raised?
Catches(handler, o) == o.kind = "raise" /\ IsSubclass(o.exc, handler)

\* raise RequestException(f"<prefix>{str(e)}")
Wrapped(prefix, o) ==
    Raise("RequestException", Msg(prefix \o o.msg.text, o.msg.status))

\* ------------------------------------------------------------ adapters
Adapters ==
    {"fetch_polls", "get_poll_results", "get_poll_results_with_error_handling",
     "get_poll_results_summary", "register_user", "login_and_get_token",
     "vote_on_poll"}

IntArgs == (0 - 1)..MaxArg
Usernames == {"", "alice"}
Passwords == {"", "secret"}
Tokens == {"", "tok"}

\* The argument combinations of each adapter.
ArgsOf(f) ==
    CASE f = "fetch_polls" -> [skip : IntArgs, limit : IntArgs]
      [] f \in {"register_user", "login_and_get_token"} ->
             [username : Usernames, password : Passwords]
      [] f = "vote_on_poll" ->
             [poll_id : IntArgs, option_id : IntArgs, access_token : Tokens]
      [] OTHER -> [poll_id : IntArgs]

\* Python's "not n or n <= 0" for an integer n.
NotPositive(n) == n = 0 \/ n <= 0

\* The parameter checks ahead of the request: the failure of the first check
\* that fails, NoOutcome when all pass.  ValueError(400, text) carries 400 as
\* its first argument.
Validate(f, a) ==
    CASE f = "fetch_polls" ->
             IF a.skip < 0
             THEN Raise("ValueError",
                        Msg("Skip parameter must be non-negative", Some(400)))
             ELSE IF a.limit <= 0
             THEN Raise("ValueError",
                        Msg("Limit parameter must be positive", Some(400)))
             ELSE NoOutcome
      [] f \in {"get_poll_results", "get_poll_results_summary"} ->
             IF NotPositive(a.poll_id)
             THEN Raise("ValueError",
                        Msg("Poll ID must be a positive integer", Missing))
             ELSE NoOutcome
      [] f = "get_poll_results_with_error_handling" ->
             IF NotPositive(a.poll_id)
             THEN Triple(FALSE, None,
                         Some(Msg("Poll ID must be a positive integer", Missing)))
             ELSE NoOutcome
      [] f = "register_user" ->
             IF a.username = "" \/ a.password = ""
             THEN Raise("ValueError",
                        Msg("Username and password are required", Some(400)))
             ELSE NoOutcome
      [] f = "login_and_get_token" -> NoOutcome
      [] f = "vote_on_poll" ->
             IF NotPositive(a.poll_id)
             THEN Raise("ValueError",
                        Msg("Poll ID must be a positive integer", Missing))
             ELSE IF NotPositive(a.option_id)
             THEN Raise("ValueError",
                        Msg("Option ID must be a positive integer", Missing))
             ELSE IF a.access_token = ""
             THEN Raise("ValueError",
                        Msg("Access token is required for voting", Missing))
             ELSE NoOutcome

\* fetch_polls from the request on: the try body, then the except clause,
\* which drops the caught exception's text.
fetch_polls(r) ==
    LET body == IF r.kind = "transport" THEN TransportError(r)
                ELSE IF r.status = 200 THEN Json(r)
                ELSE raise_for_status(r)
    IN  IF Catches("RequestException", body)
        THEN Raise("RequestException", Msg("Failed to fetch polls", Missing))
        ELSE body

\* get_poll_results from the request on.
get_poll_results(r) ==
    LET body == IF r.kind = "transport" THEN TransportError(r)
                ELSE IF r.status = 200 THEN Json(r)
                ELSE IF r.status = 404
                THEN Raise("ValueError", Msg("Poll not found", Missing))
                ELSE raise_for_status(r)
    IN  IF Catches("RequestException", body)
        THEN Wrapped("Failed to get poll results: ", body)
        ELSE body

\* The error_message of an answer that is neither 200 nor 404: the status
\* and reason, replaced by the body's "detail" when the body is a JSON
\* object that has one (whatever its value).
ErrorMessageOf(r) ==
    IF r.body.json /\ r.body.isdict /\ r.body.data.detail # Missing
    THEN LET detail == r.body.data.detail[1]
         IN  IF detail = None THEN None ELSE Some(Msg(detail[1], Missing))
    ELSE Some(Msg("HTTP status: reason", Some(r.status)))

\* get_poll_results_with_error_handling from the request on.
get_poll_results_with_error_handling(r) ==
    LET body == IF r.kind = "transport" THEN TransportError(r)
                ELSE IF r.status = 200
                THEN (IF Json(r).kind = "return"
                      THEN Triple(TRUE, Json(r).value[1], None)
                      ELSE Json(r))
                ELSE IF r.status = 404
                THEN Triple(FALSE, None, Some(Msg("Poll not found", Missing)))
                ELSE Triple(FALSE, None, ErrorMessageOf(r))
    IN  IF Catches("ConnectionError", body)
        THEN Triple(FALSE, None,
                    Some(Msg("Connection error: Could not connect to the server",
                             Missing)))
        ELSE IF Catches("Timeout", body)
        THEN Triple(FALSE, None,
                    Some(Msg("Request timeout: Server took too long to respond",
                             Missing)))
        ELSE IF Catches("RequestException", body)
        THEN Triple(FALSE, None,
                    Some(Msg("Request error: " \o body.msg.text, body.msg.status)))
        ELSE IF Catches("JSONDecodeError", body)
        THEN Triple(FALSE, None,
                    Some(Msg("Invalid JSON response from server", Missing)))
        ELSE IF Catches("Exception", body)
        THEN Triple(FALSE, None,
                    Some(Msg("Unexpected error: " \o body.msg.text,
                             body.msg.status)))
        ELSE body

\* register_user from the request on: no try, so every exception of the
\* requests library reaches the caller as it is.
register_user(r) ==
    IF r.kind = "transport" THEN TransportError(r)
    ELSE IF r.status = 200 THEN Json(r)
    ELSE IF r.status = 400
    THEN Raise("ValueError", Msg("Username already registered", Some(400)))
    ELSE raise_for_status(r)

\* login_and_get_token from the request on.
login_and_get_token(r) ==
    LET body == IF r.kind = "transport" THEN TransportError(r)
                ELSE IF r.status = 200
                THEN (IF Json(r).kind # "return" THEN Json(r)
                      ELSE IF r.body.data.access_token = Missing
                      THEN Raise("KeyError", Msg("access_token", Missing))
                      ELSE Return(Some(r.body.data.access_token[1])))
                ELSE IF r.status = 400
                THEN Raise("ValueError",
                           Msg("Incorrect username or password", Missing))
                ELSE raise_for_status(r)
    IN  IF Catches("RequestException", body)
        THEN Wrapped("Failed to login: ", body)
        ELSE body

\* vote_on_poll as a plausible bug would have it: 401 has no branch of its
\* own and falls to raise_for_status.
vote_on_poll_without_401(r) ==
    LET body == IF r.kind = "transport" THEN TransportError(r)
                ELSE IF r.status = 200 THEN Json(r)
                ELSE IF r.status = 404
                THEN Raise("ValueError", Msg("Poll or option not found", Missing))
                ELSE raise_for_status(r)
    IN  IF Catches("RequestException", body)
        THEN Wrapped("Failed to vote on poll: ", body)
        ELSE body

\* vote_on_poll from the request on.
vote_on_poll(r) ==
    LET body == IF r.kind = "transport" THEN TransportError(r)
                ELSE IF r.status = 200 THEN Json(r)
                ELSE IF r.status = 401
                THEN Raise("ValueError",
                           Msg("Unauthorized: Invalid or expired access token",
                               Missing))
                ELSE IF r.status = 404
                THEN Raise("ValueError", Msg("Poll or option not found", Missing))
                ELSE raise_for_status(r)
    IN  IF Catches("RequestException", body)
        THEN Wrapped("Failed to vote on poll: ", body)
        ELSE body

\* What adapter f makes of r (for get_poll_results_summary: what its call of
\* get_poll_results makes of it).
Handle(f, r) ==
    CASE f = "fetch_polls" -> fetch_polls(r)
      [] f \in {"get_poll_results", "get_poll_results_summary"} ->
             get_poll_results(r)
      [] f = "get_poll_results_with_error_handling" ->
             get_poll_results_with_error_handling(r)
      [] f = "register_user" -> register_user(r)
      [] f = "login_and_get_token" -> login_and_get_token(r)
      [] f = "vote_on_poll" -> vote_on_poll(r)

\* Where an adapter goes after its request, as a plausible bug would have
\* it: a failed request is sent again.
AfterRequestRetrying(f, o) ==
    IF o.kind = "raise" /\ IsSubclass(o.exc, "RequestException") THEN "request"
    ELSE IF f = "get_poll_results_summary" /\ o.kind = "return" THEN "format"
    ELSE "done"

\* Where an adapter goes after its request: it is over, except that
\* get_poll_results_summary goes on to format what get_poll_results returned.
AfterRequest(f, o) ==
    IF f = "get_poll_results_summary" /\ o.kind = "return" THEN "format"
    ELSE "done"

\* ------------------------------------------------------- state machine
VARIABLES
    pc,        \* "idle", "validate", "request", "await", "respond", "format", "done"
    fn,        \* the function being run
    args,      \* its arguments
    nreq,      \* HTTP requests issued by this invocation
    resp,      \* what requests.get/post did
    outcome,   \* how the invocation ended
    nformat    \* calls of format_poll_results in this invocation

vars == <<pc, fn, args, nreq, resp, outcome, nformat>>

NoArgs == [none |-> TRUE]
NoResp == NoResponse("")

Init ==
    /\ pc = "idle"
    /\ fn = ""
    /\ args = NoArgs
    /\ nreq = 0
    /\ resp = NoResp
    /\ outcome = NoOutcome
    /\ nformat = 0

\* A caller invokes an adapter with some arguments.
Call ==
    /\ pc = "idle"
    /\ \E f \in Adapters : \E a \in ArgsOf(f) :
          /\ fn' = f
          /\ args' = a
    /\ pc' = "validate"
    /\ nreq' = 0
    /\ resp' = NoResp
    /\ outcome' = NoOutcome
    /\ nformat' = 0

\* A caller invokes format_poll_results on None or on a dict.
CallFormat ==
    /\ pc = "idle"
    /\ \E results_data \in {None} \cup {Some(d) : d \in ReportDicts} :
          args' = [results_data |-> results_data]
    /\ pc' = "format"
    /\ fn' = "format_poll_results"
    /\ nreq' = 0
    /\ resp' = NoResp
    /\ outcome' = NoOutcome
    /\ nformat' = 0

\* The parameter checks: a violation ends the invocation.
CheckArgs ==
    /\ pc = "validate"
    /\ outcome' = Validate(fn, args)
    /\ pc' = IF Validate(fn, args) = NoOutcome THEN "request" ELSE "done"
    /\ UNCHANGED <<fn, args, nreq, resp, nformat>>

\* requests.get / requests.post is called.
SendRequest ==
    /\ pc = "request"
    /\ nreq' = nreq + 1
    /\ pc' = "await"
    /\ UNCHANGED <<fn, args, resp, outcome, nformat>>

\* The call answers with a response or raises a transport exception.
Receive ==
    /\ pc = "await"
    /\ \E r \in Responses(fn) : resp' = r
    /\ pc' = "respond"
    /\ UNCHANGED <<fn, args, nreq, outcome, nformat>>

\* The status dispatch and the except clauses.
Dispatch ==
    /\ pc = "respond"
    /\ outcome' = Handle(fn, resp)
    /\ pc' = AfterRequest(fn, Handle(fn, resp))
    /\ UNCHANGED <<fn, args, nreq, resp, nformat>>

\* format_poll_results runs, on its argument or, in
\* get_poll_results_summary, on what get_poll_results returned.
Format ==
    /\ pc = "format"
    /\ nformat' = nformat + 1
    /\ outcome' = format_poll_results(
                      IF fn = "format_poll_results" THEN args.results_data
                      ELSE outcome.value)
    /\ pc' = "done"
    /\ UNCHANGED <<fn, args, nreq, resp>>

\* The caller has its result; nothing of the invocation outlives it, and
\* the next one can start.
Finish ==
    /\ pc = "done"
    /\ pc' = "idle"
    /\ fn' = ""
    /\ args' = NoArgs
    /\ nreq' = 0
    /\ resp' = NoResp
    /\ outcome' = NoOutcome
    /\ nformat' = 0

Next ==
    \/ Call
    \/ CallFormat
    \/ CheckArgs
    \/ SendRequest
    \/ Receive
    \/ Dispatch
    \/ Format
    \/ Finish

Spec == Init /\ [][Next]_vars

\* ---------------------------------------------------------- properties
PollResultsFns ==
    {"get_poll_results", "get_poll_results_with_error_handling",
     "get_poll_results_summary"}

\* The invocation ended in a failure: an exception, or the triple's success
\* flag is false.
Failed ==
    \/ outcome.kind = "raise"
    \/ /\ fn = "get_poll_results_with_error_handling"
       /\ outcome.kind = "return"
       /\ ~outcome.value[1].success

\* A precondition of the running adapter is violated by its arguments.
PreconditionViolated ==
    \/ fn = "fetch_polls" /\ (args.skip < 0 \/ args.limit <= 0)
    \/ fn \in PollResultsFns \cup {"vote_on_poll"} /\ args.poll_id <= 0
    \/ fn = "vote_on_poll" /\ (args.option_id <= 0 \/ args.access_token = "")
    \/ fn \in {"register_user", "login_and_get_token"}
         /\ (args.username = "" \/ args.password = "")

\* C1 (as claimed): in every adapter, arguments that violate a precondition
\* (skip < 0, limit <= 0, poll_id <= 0, option_id <= 0, an empty username,
\* password or access_token) are rejected locally: the invocation issues no
\* HTTP request and ends in a failure.
C1_ViolationRejectedLocally ==
    (fn \in Adapters /\ PreconditionViolated) =>
        /\ nreq = 0
        /\ pc = "done" => Failed

\* format_poll_results has run and the invocation is over.
FormatDone == pc = "done" /\ nformat = 1

\* What format_poll_results was called on.
FormatInput ==
    IF fn = "format_poll_results" THEN args.results_data
    ELSE IF resp.kind = "http" /\ resp.status = 200 /\ resp.body.json
    THEN Some(resp.body.data)
    ELSE None

\* The results list of that input, empty when the input or the list is absent.
InputResults ==
    IF FormatInput = None \/ FormatInput[1].results = Missing THEN <<>>
    ELSE FormatInput[1].results[1]

\* The lines of the formatted text, none when the formatter raised.
OutLines == IF outcome.kind = "return" THEN outcome.value[1] ELSE <<>>
LinesOf(kind) == SelectSeq(OutLines, LAMBDA l : l.kind = kind)

CountOf(tally) == IF tally.vote_count = Missing THEN 0 ELSE tally.vote_count[1]

RECURSIVE SumOfCounts(_)
SumOfCounts(tallies) ==
    IF tallies = <<>> THEN 0
    ELSE CountOf(Head(tallies)) + SumOfCounts(Tail(tallies))

C3_StableDescendingRanking ==
    (FormatDone /\ InputResults # <<>>) =>
        LET n == Len(InputResults)
            ranks == LinesOf("rank")
            votes == LinesOf("votes")
            options == LinesOf("option")
        IN  /\ Len(ranks) = n /\ Len(votes) = n /\ Len(options) = n
            /\ \A i \in 1..n : ranks[i].rank = i
            /\ {options[i].option_id : i \in 1..n} = 1..n
            /\ \A i \in 1..n :
                  votes[i].vote_count = CountOf(InputResults[options[i].option_id])
            /\ \A i \in 1..n : \A j \in 1..n :
                  i < j =>
                     /\ votes[i].vote_count >= votes[j].vote_count
                     /\ votes[i].vote_count = votes[j].vote_count
                           => options[i].option_id < options[j].option_id

\* C3 witness: three tallies, two of equal count after a smaller one (as
\* counts 2, 3, 3), have been formatted.
C3_Witness ==
    /\ FormatDone
    /\ Len(InputResults) = 3
    /\ CountOf(InputResults[1]) < CountOf(InputResults[2])
    /\ CountOf(InputResults[2]) = CountOf(InputResults[3])
    /\ Len(LinesOf("rank")) = 3

\* The report or its results sequence is absent or empty.
NothingToRank == Falsy(FormatInput) \/ InputResults = <<>>

Abs(x) == IF x < 0 THEN 0 - x ELSE x

\* C5: the formatter never divides by zero; each option's percentage (here
\* in tenths of a percent) is vote_count / total_votes * 100 to one decimal
\* place when total_votes > 0, and 0 otherwise; counts 3 and 1 give total 4
\* and 75.0 and 25.0.
C5_Percentages ==
    FormatDone =>
        LET total == SumOfCounts(InputResults)
            votes == LinesOf("votes")
        IN  /\ outcome.kind = "return"
            /\ Len(votes) = Len(InputResults)
            /\ \A i \in 1..Len(votes) :
                  /\ total > 0 =>
                        2 * Abs(votes[i].pct * total - 1000 * votes[i].vote_count)
                           <= total
                  /\ total = 0 => votes[i].pct = 0
            /\ (/\ Len(InputResults) = 2
                /\ InputResults[1].vote_count = Some(3)
                /\ InputResults[2].vote_count = Some(1))
                  => /\ LinesOf("total")[1].total = 4
                     /\ votes[1].pct = 750
                     /\ votes[2].pct = 250

\* C5 witness: a non-empty results sequence whose counts are all zero has
\* been formatted.
C5_Witness ==
    /\ FormatDone
    /\ Len(InputResults) >= 2
    /\ \A i \in 1..Len(InputResults) : InputResults[i].vote_count = Some(0)
    /\ Len(LinesOf("votes")) = Len(InputResults)

\* The server answered the running adapter with this status.
Answered(f, status) ==
    /\ pc = "done"
    /\ fn = f
    /\ resp.kind = "http"
    /\ resp.status = status

\* The invocation ended in this domain failure: a ValueError, which is no
\* exception of the requests library, with this text.
DomainFailure(text) ==
    /\ outcome.kind = "raise"
    /\ outcome.exc = "ValueError"
    /\ outcome.exc \notin RequestExceptions
    /\ outcome.msg.text = text

\* C6: on a 404 answer get_poll_results and get_poll_results_summary end in
\* the "Poll not found" domain failure, not in a transport failure, and
\* get_poll_results_summary never calls format_poll_results.
C6_NotFoundIsDomainFailure ==
    (/\ fn \in {"get_poll_results", "get_poll_results_summary"}
     /\ pc \in {"format", "done"}
     /\ resp.kind = "http"
     /\ resp.status = 404) =>
        /\ pc = "done"
        /\ DomainFailure("Poll not found")
        /\ nformat = 0

\* C6 witness: get_poll_results_summary is over after a 404 answer.
C6_Witness ==
    /\ Answered("get_poll_results_summary", 404)
    /\ nreq = 1
    /\ outcome.kind = "raise"

\* C7: register 400, login 400, vote 401 and vote 404 each end in a domain
\* failure with its own message, never in a failure of the requests library.
C7_RecognizedStatusIsDomainFailure ==
    /\ Answered("register_user", 400) =>
          DomainFailure("Username already registered")
    /\ Answered("login_and_get_token", 400) =>
          DomainFailure("Incorrect username or password")
    /\ Answered("vote_on_poll", 401) =>
          DomainFailure("Unauthorized: Invalid or expired access token")
    /\ Answered("vote_on_poll", 404) =>
          DomainFailure("Poll or option not found")

\* C7 witness: vote_on_poll is over after a 401 answer.
C7_Witness ==
    /\ Answered("vote_on_poll", 401)
    /\ nreq = 1
    /\ outcome.kind = "raise"

\* The statuses an adapter has a branch for.
MappedStatuses(f) ==
    CASE f \in PollResultsFns -> {200, 404}
      [] f \in {"register_user", "login_and_get_token"} -> {200, 400}
      [] f = "vote_on_poll" -> {200, 401, 404}
      [] OTHER -> {200}

\* The failure's message: that of the exception, or the triple's
\* error_message (None when it has none).
FailureMessage ==
    IF outcome.kind = "raise" THEN Some(outcome.msg)
    ELSE outcome.value[1].error_message

\* C8 (as claimed): in every adapter a non-2xx status without a branch of
\* its own ends in a failure that carries the status code and reason (or the
\* server's detail message), and that no transport failure of the same
\* adapter (connection error, timeout) is equal to.
C8_UnmappedStatusSurfaced ==
    (/\ pc = "done"
     /\ fn \in Adapters
     /\ resp.kind = "http"
     /\ resp.status \notin 200..299
     /\ resp.status \notin MappedStatuses(fn)) =>
        /\ Failed
        /\ FailureMessage # None
        /\ \/ FailureMessage[1].status = Some(resp.status)
           \/ /\ resp.body.json /\ resp.body.isdict
              /\ resp.body.data.detail = Some(Some(FailureMessage[1].text))
              /\ FailureMessage[1].text # ""
        /\ \A e \in TransportExceptions : Handle(fn, NoResponse(e)) # outcome

\* C9: an invocation issues at most one HTTP request, exactly one when its
\* parameter checks pass and none otherwise, and is over after the answer or
\* the transport failure of that one request.
C9_SingleRequest ==
    /\ nreq <= 1
    /\ (fn \in Adapters /\ pc \in {"await", "respond", "format", "done"}) =>
          nreq = (IF Validate(fn, args) = NoOutcome THEN 1 ELSE 0)
    /\ (fn \in Adapters /\ pc = "done") =>
          /\ outcome.kind \in {"return", "raise"}
          /\ nreq = 1 <=> resp # NoResp

\* C9 witness: an adapter is over after its one request failed in transport.
C9_Witness ==
    /\ pc = "done"
    /\ fn = "fetch_polls"
    /\ resp.kind = "transport"
    /\ nreq = 1
    /\ outcome.kind = "raise"

\* C10 (as claimed): get_poll_results_with_error_handling never raises; it
\* returns a triple whose success is true exactly when error_message is
\* None, and on failure results_data is None and error_message is a
\* non-empty message.
C10_TripleIsConsistent ==
    (pc = "done" /\ fn = "get_poll_results_with_error_handling") =>
        /\ outcome.kind = "return"
        /\ LET t == outcome.value[1]
           IN  /\ t.success <=> t.error_message = None
               /\ ~t.success =>
                     /\ t.results_data = None
                     /\ t.error_message # None
                     /\ t.error_message[1].text # ""

\* The adapters that report failures by raising.
RaisingAdapters ==
    {"fetch_polls", "get_poll_results", "register_user",
     "login_and_get_token", "vote_on_poll"}

\* C11 (as claimed): whatever status the server answers a raising adapter
\* with, the invocation either returns the decoded payload, and then the
\* status is 200, or raises; it never returns without a payload for another
\* status (201, 204, a 3xx).
C11_PayloadOrFailure ==
    (pc = "done" /\ fn \in RaisingAdapters /\ resp.kind = "http") =>
        \/ outcome.kind = "raise"
        \/ /\ outcome.kind = "return"
           /\ resp.status = 200
           /\ outcome.value # None
====
